---- MODULE Spec2Model ----
(***************************************************************************)
(* github-backup.py: one run of main() over the configured tokens.  Every  *)
(* request to the GitHub API, every directory creation and every git       *)
(* subprocess is one step whose outcome is chosen by the environment.      *)
(***************************************************************************)
EXTENDS Bags, FiniteSets, Integers, Sequences, TLC

\* ------------------------------------------------------------------ bounds
\* tokens configured; requests per listing; entries per page; entries
\* (organizations and repositories) the listings of one process hold in all;
\* operations of one process that fail (a request, a mkdir, a git command);
\* ref states of a remote
MaxTokens == 2
MaxPages == 2
MaxPageLen == 2
MaxItems == 3
MaxFaults == 1
MaxRef == 1

\* characters of a name put to check_name
MaxLen == 2

\* ------------------------------------------------------------------- names
\* A name is a sequence of characters.  The characters are told apart by the
\* classes the pattern of check_name tells apart.
AsciiWord == {"a", "b", "c", "e", "f", "i", "m", "o", "p", "r", "t", "v", "w", "y", "z",
              "_", "2", "7"}
UnicodeWord == {"U+00E9"}
Chars == AsciiWord \cup UnicodeWord \cup {"-", ".", "/", ";", " ", "LF"}

\* \w of a str pattern (re.UNICODE is the default for str patterns)
IsWord(c) == c \in AsciiWord \cup UnicodeWord

\* [-\.\w]
InClass(c) == c \in {"-", "."} \/ IsWord(c)

\* re.match(r"^[-\.\w]*$", name): every character is in the class; "$" also
\* matches just before a newline that ends the string.
ReMatch(name) ==
    LET n == Len(name)
        body == IF n > 0 /\ name[n] = "LF" THEN SubSeq(name, 1, n - 1) ELSE name
    IN \A i \in 1..Len(body) : InClass(body[i])

\* check_name(name) returns name, or raises RuntimeError
check_name_raises(name) == ~ReMatch(name)

\* what check_name returns when it does not raise
check_name(name) == name

\* the names the API answers with in this model (untrusted input)
N_a == <<"a">>
N_b == <<"b">>
N_w == <<"w">>
N_bad == <<".", ".", "/", "a">>
N_abs == <<"/", "a">>
Logins == {N_a, N_b, N_bad, N_abs}
IdentityLogins == {N_a, N_bad}
RepoNames == {N_w, N_bad}

\* a repository record of a listing: owner.login and name
Repos == [owner : Logins, name : RepoNames]

RECURSIVE SeqsUpTo(_, _)
SeqsUpTo(S, n) ==
    IF n = 0 THEN {<<>>}
    ELSE LET shorter == SeqsUpTo(S, n - 1)
         IN shorter \cup {Append(s, x) : s \in {t \in shorter : Len(t) = n - 1}, x \in S}

\* a page of the organizations listing
OrgPages == SeqsUpTo(Logins, MaxPageLen)

\* the names check_name is put to on its own: every name of up to MaxLen
\* characters, one character of each kind the pattern tells apart, and three
\* longer ones
NameChars == {"a", "U+00E9", "-", ".", "/", ";", "LF"}
N_versioned == <<"m", "y", "-", "r", "e", "p", "o", ".", "v", "2">>
N_traversal == <<".", ".", "/", "e", "t", "c">>
N_injection == <<"a", ";", "r", "m", " ", "-", "r", "f">>
Names == SeqsUpTo(NameChars, MaxLen) \cup {N_versioned, N_traversal, N_injection}

\* ------------------------------------------------------------------- paths
\* A path is the sequence of the segments joined, from the configured
\* directory on; a path whose first segment begins with "/" is an absolute
\* one, which does not go through the configured directory.
Root == <<>>

IsAbsolute(segment) == segment # <<>> /\ segment[1] = "/"

\* os.path.join(path, segment): a segment that begins with "/" drops
\* everything joined before it
os_path_join(path, segment) ==
    IF IsAbsolute(segment) THEN <<segment>> ELSE Append(path, segment)

\* The directory a joined path names when mkdir, git (cwd) and open use it:
\* an empty segment and "." name the directory reached so far, ".." names
\* its parent (kept where there is nothing left to go up from). Segments
\* are taken whole: the names that pass check_name hold no "/".
RECURSIVE Resolve(_)
Resolve(path) ==
    IF path = <<>> THEN <<>>
    ELSE LET dir == Resolve(SubSeq(path, 1, Len(path) - 1))
             segment == path[Len(path)]
         IN IF segment \in {<<>>, <<".">>} THEN dir
            ELSE IF segment = <<".", ".">> /\ dir # <<>> /\ dir[Len(dir)] # <<".", ".">>
            THEN SubSeq(dir, 1, Len(dir) - 1)
            ELSE Append(dir, segment)

\* the path and its ancestors, as far as this model tells directories apart
Prefixes(path) ==
    {SubSeq(path, 1, k) : k \in (IF path # <<>> /\ IsAbsolute(path[1]) THEN 1 ELSE 0)..Len(path)}

\* -------------------------------------------------------------------- disk
\* What the run persists: dirs, the directories; bare, the directories that
\* hold an initialised bare repository; refs, the ref state of each (0: no
\* refs yet); zips, the snapshot files with their content; remotes, the
\* remote URLs stored in a repository's configuration.
EmptyDisk == [dirs |-> {}, bare |-> {}, refs |-> <<>>, zips |-> <<>>, remotes |-> {}]

\* the outcomes os.makedirs(path, exist_ok=True) can have
MkdirOutcomes(d, path) == IF path \in d.dirs THEN {"ok"} ELSE {"ok", "denied"}

\* mkdir(path): os.makedirs creates the path and its missing ancestors; an
\* error is printed and swallowed
mkdir(d, path, md) ==
    IF md = "ok" THEN [d EXCEPT !.dirs = @ \cup Prefixes(path)] ELSE d

\* the value mkdir returns
mkdir_returns(md) == md = "ok"

\* the repo_url mirror builds: username:token@netloc
authenticated(repo_url, username, token) ==
    [userinfo |-> [username |-> username, token |-> token], url |-> repo_url]

\* git init --bare --quiet, cwd=repo_path: safe on an existing repository
git_init(d, repo_path, gi) ==
    IF gi = "ok" /\ repo_path \notin d.bare
    THEN [d EXCEPT !.bare = @ \cup {repo_path}, !.refs = @ @@ (repo_path :> 0)]
    ELSE d

\* did the fetch update the refs: it cannot where no repository was initialised
fetched(d, repo_path, gf) == gf = "ok" /\ repo_path \in d.bare

\* A fetch that stores its remote (git clone, git remote add) leaves the
\* authenticated URL in the repository's configuration.
git_fetch_stored_remote(d, repo_path, repo_url, gf, v) ==
    LET d1 == [d EXCEPT !.remotes = @ \cup {[path |-> repo_path, url |-> repo_url]}]
    IN IF fetched(d, repo_path, gf) THEN [d1 EXCEPT !.refs[repo_path] = v] ELSE d1

\* git fetch --force --prune --tags --quiet <repo_url> refs/heads/*:refs/heads/*
\* the URL is an argument of the one command; v is the remote's ref state.
\* A fetch that fails (no connection, no access, no repository to fetch
\* into) has written no ref.
git_fetch(d, repo_path, repo_url, gf, v) ==
    IF fetched(d, repo_path, gf) THEN [d EXCEPT !.refs[repo_path] = v] ELSE d

\* A mirror that starts from a fresh repository each time loses the refs it
\* had when the fetch then fails.
mirror_afresh(d, repo_name, repo_url, to_path, username, token, env) ==
    LET url == authenticated(repo_url, username, token)
        repo_path == os_path_join(to_path, repo_name)
        d1 == mkdir(d, repo_path, env.md)
        d2 == IF repo_path \in d1.bare THEN [d1 EXCEPT !.refs[repo_path] = 0] ELSE d1
    IN IF repo_path \notin d1.dirs
       THEN [disk |-> d1, raised |-> "FileNotFoundError", fetched |-> FALSE]
       ELSE LET d3 == git_init(d2, repo_path, env.gi)
            IN [disk |-> git_fetch(d3, repo_path, url, env.gf, env.v),
                raised |-> "none",
                fetched |-> fetched(d3, repo_path, env.gf)]

\* mirror(repo_name, repo_url, to_path, username, token); what mkdir returns
\* is not looked at, and subprocess.call raises FileNotFoundError when its cwd
\* does not exist; the exit statuses of git are not looked at
mirror(d, repo_name, repo_url, to_path, username, token, env) ==
    LET url == authenticated(repo_url, username, token)
        repo_path == os_path_join(to_path, repo_name)
        d1 == mkdir(d, repo_path, env.md)
    IN IF repo_path \notin d1.dirs
       THEN [disk |-> d1, raised |-> "FileNotFoundError", fetched |-> FALSE]
       ELSE LET d2 == git_init(d1, repo_path, env.gi)
            IN [disk |-> git_fetch(d2, repo_path, url, env.gf, env.v),
                raised |-> "none",
                fetched |-> fetched(d2, repo_path, env.gf)]

\* f"{repo}.zip"
ZipName(repo) == repo \o <<".", "z", "i", "p">>

\* the outcomes of the archive request: a 2xx response whose body is read to
\* the end, a non-2xx response, a request that raises (connection, timeout),
\* a 2xx response whose body breaks off
ZipOutcomes == {"ok", "http", "conn", "stream"}

\* A download that opens the file before it looks at the response status
\* truncates the stored snapshot on a non-2xx response.
download_zip_snapshot_open_first(d, owner, repo, to_path, token, zo, v) ==
    LET zip_path == os_path_join(to_path, ZipName(repo))
    IN CASE to_path \notin d.dirs ->
              [disk |-> d, raised |-> IF zo = "conn" THEN "ConnectionError" ELSE "FileNotFoundError"]
         [] zo = "ok" ->
              [disk |-> [d EXCEPT !.zips = (zip_path :> v) @@ @], raised |-> "none"]
         [] zo = "http" ->
              [disk |-> [d EXCEPT !.zips = (zip_path :> 0) @@ @], raised |-> "none"]
         [] zo = "conn" ->
              [disk |-> d, raised |-> "ConnectionError"]
         [] OTHER ->
              [disk |-> [d EXCEPT !.zips = (zip_path :> 0) @@ @], raised |-> "ChunkedEncodingError"]

\* download_zip_snapshot(owner, repo, to_path, token): raise_for_status comes
\* before open(zip_path, "wb"); only requests.exceptions.HTTPError is caught.
\* Content 0 is a file cut short.
download_zip_snapshot(d, owner, repo, to_path, token, zo, v) ==
    LET zip_path == os_path_join(to_path, ZipName(repo))
    IN CASE zo = "http" ->
              [disk |-> d, raised |-> "none"]
         [] zo = "conn" ->
              [disk |-> d, raised |-> "ConnectionError"]
         [] to_path \notin d.dirs ->
              [disk |-> d, raised |-> "FileNotFoundError"]
         [] zo = "ok" ->
              [disk |-> [d EXCEPT !.zips = (zip_path :> v) @@ @], raised |-> "none"]
         [] OTHER ->
              [disk |-> [d EXCEPT !.zips = (zip_path :> 0) @@ @], raised |-> "ChunkedEncodingError"]

\* ------------------------------------------------------------------- state
VARIABLES
    tokens,           \* main: the configured tokens, in order
    ti,               \* main: enumerate index of the token being processed (from 1)
    pc,               \* where the run is
    exitStatus,       \* "running", or the exit status of the process: "0", "1"
    raised,           \* the exception that left main, or "none"
    success,          \* what backup_repositories_for_token returned
    user_login,       \* user["login"]
    orgs,             \* the organization logins collected
    orgIdx,           \* position of the for loop over orgs (from 1)
    pageLeft,         \* entries of the current page the inner for loop has yet to read
    repo,             \* the entry the inner for loop is on: (owner, name) after check_name
    more,             \* get_json: a further request follows this page
    pageNo,           \* get_json: the requests made for the current listing
    served,           \* entries (organizations, repositories) the listings have held so far
    faults,           \* requests, mkdirs and git commands that have failed so far
    processed_repos,  \* the set of repo_id of the user-repos pass
    disk,             \* what is on disk below the configured directory
    mirrorCalls,      \* this token: bag of the (owner, name) mirror was called for
    usedPaths,        \* this token: the paths given to mkdir, git and open
    ev                \* the step just taken and how it came out

ctl == <<tokens, ti, pc, exitStatus, raised, success>>
listing == <<pageLeft, more, pageNo, served>>

run == <<user_login, orgs, orgIdx, repo, listing, processed_repos>>
hist == <<mirrorCalls, usedPaths>>
vars == <<ctl, run, disk, hist, faults, ev>>

\* the outcomes of requests.get + raise_for_status: a 2xx response, a non-2xx
\* response (requests.exceptions.HTTPError), no response at all
\* (requests.exceptions.ConnectionError, which is no HTTPError)
GetOutcomes == {"ok", "http", "conn"}

\* what git init and git fetch can come to
GitOutcomes == {"ok", "fail"}

RefStates == 1..MaxRef

Event(op, out, arg) == [op |-> op, out |-> out, arg |-> arg]

\* the step's outcomes that are failures are counted
Fails(outs) ==
    LET n == Cardinality({i \in DOMAIN outs : outs[i] # "ok"})
    IN /\ faults + n <= MaxFaults
       /\ faults' = faults + n

NoRepo == [owner |-> <<>>, name |-> <<>>]

token == tokens[ti]
token_base_path == os_path_join(Root, user_login)
org_login == orgs[orgIdx]
org_path == os_path_join(token_base_path, org_login)

\* the state at the start of one call of backup_repositories_for_token
EnterRun ==
    /\ user_login' = <<>>
    /\ orgs' = <<>>
    /\ orgIdx' = 1
    /\ repo' = NoRepo
    /\ pageLeft' = 0
    /\ more' = TRUE
    /\ pageNo' = 0
    /\ UNCHANGED served
    /\ processed_repos' = {}
    /\ mirrorCalls' = EmptyBag
    /\ usedPaths' = {}

Init ==
    /\ tokens \in {[i \in 1..n |-> i] : n \in 0..MaxTokens}
    /\ ti = 1
    /\ pc = "main"
    /\ exitStatus = "running"
    /\ raised = "none"
    /\ success = FALSE
    /\ user_login = <<>>
    /\ orgs = <<>>
    /\ orgIdx = 1
    /\ repo = NoRepo
    /\ pageLeft = 0
    /\ more = TRUE
    /\ pageNo = 0
    /\ served = 0
    /\ faults = 0
    /\ processed_repos = {}
    /\ disk = EmptyDisk
    /\ mirrorCalls = EmptyBag
    /\ usedPaths = {}
    /\ ev = Event("start", "ok", <<>>)

\* an exception nothing catches leaves backup_repositories_for_token and
\* main: the interpreter prints the traceback and exits with status 1
Raise(e) ==
    /\ pc' = "exit"
    /\ raised' = e
    /\ exitStatus' = "1"
    /\ UNCHANGED <<tokens, ti, success>>

\* return from backup_repositories_for_token to the loop of main
Return(b) ==
    /\ pc' = "returned"
    /\ success' = b
    /\ UNCHANGED <<tokens, ti, exitStatus, raised>>

Goto(l) ==
    /\ pc' = l
    /\ UNCHANGED <<tokens, ti, exitStatus, raised, success>>

\* a new listing starts: for page in get_json(url, token)
StartListing ==
    /\ pageLeft' = 0
    /\ more' = TRUE
    /\ pageNo' = 0
    /\ UNCHANGED served

\* get_json yields a page of k entries; nxt: the response has a next link
YieldPage(k, nxt) ==
    /\ k \in 0..MaxPageLen
    /\ served + k <= MaxItems
    /\ nxt \in BOOLEAN
    /\ nxt => pageNo + 1 < MaxPages
    /\ pageLeft' = k
    /\ more' = nxt
    /\ pageNo' = pageNo + 1
    /\ served' = served + k

\* main up to the loop: mkdir(path), then the first token if there is one
MainStart(md) ==
    /\ pc = "main"
    /\ md \in MkdirOutcomes(disk, Root)
    /\ Fails(<<md>>)
    /\ disk' = mkdir(disk, Root, md)
    /\ ev' = Event("main", md, Root)
    /\ IF Len(tokens) = 0
       THEN /\ pc' = "exit"
            /\ exitStatus' = "0"
            /\ UNCHANGED <<tokens, ti, raised, success>>
       ELSE Goto("ResolvingIdentity")
    /\ UNCHANGED <<run, hist>>

\* user = next(get_json("https://api.github.com/user", token)), user_login,
\* mkdir(token_base_path)
ResolveIdentity(out, login, md) ==
    /\ pc = "ResolvingIdentity"
    /\ out \in GetOutcomes
    /\ CASE out = "http" ->
              /\ Fails(<<out>>)
              /\ Return(FALSE)
              /\ ev' = Event("identity", out, <<>>)
              /\ UNCHANGED <<run, disk, hist>>
         [] out = "conn" ->
              /\ Fails(<<out>>)
              /\ Raise("ConnectionError")
              /\ ev' = Event("identity", out, <<>>)
              /\ UNCHANGED <<run, disk, hist>>
         [] OTHER ->
              /\ login \in IdentityLogins
              /\ md \in MkdirOutcomes(disk, os_path_join(Root, login))
              /\ Fails(<<md>>)
              /\ user_login' = login
              /\ disk' = mkdir(disk, os_path_join(Root, login), md)
              /\ usedPaths' = usedPaths \cup {os_path_join(Root, login)}
              /\ ev' = Event("identity", out, login)
              /\ Goto("DiscoveringOrgs")
              /\ UNCHANGED <<orgs, orgIdx, repo, listing, processed_repos, mirrorCalls>>

\* the loop of main after the call: exit on a failure of the only token,
\* else the next token, else the end of main
MainLoop ==
    /\ pc = "returned"
    /\ ev' = Event("loop", IF success THEN "ok" ELSE "failed", <<>>)
    /\ UNCHANGED <<disk, faults>>
    /\ IF ~success /\ Len(tokens) = 1
       THEN /\ pc' = "exit"
            /\ exitStatus' = "1"
            /\ UNCHANGED <<tokens, ti, raised, success, run, hist>>
       ELSE IF ti < Len(tokens)
       THEN /\ ti' = ti + 1
            /\ pc' = "ResolvingIdentity"
            /\ EnterRun
            /\ UNCHANGED <<tokens, exitStatus, raised, success>>
       ELSE /\ pc' = "exit"
            /\ exitStatus' = "0"
            /\ UNCHANGED <<tokens, ti, raised, success, run, hist>>

\* for page in get_json("https://api.github.com/user/orgs", token):
\* orgs.extend(page); an HTTPError empties orgs
FetchOrgs(out, pg, nxt) ==
    /\ pc = "DiscoveringOrgs"
    /\ out \in GetOutcomes
    /\ Fails(<<out>>)
    /\ ev' = Event("orgs", out, pageNo + 1)
    /\ UNCHANGED <<user_login, repo, processed_repos, disk, hist>>
    /\ CASE out = "http" ->
              /\ orgs' = <<>>
              /\ orgIdx' = 1
              /\ Goto("OrgLoop")
              /\ UNCHANGED listing
         [] out = "conn" ->
              /\ Raise("ConnectionError")
              /\ UNCHANGED <<orgs, orgIdx, listing>>
         [] OTHER ->
              /\ pg \in OrgPages
              /\ served + Len(pg) <= MaxItems
              /\ nxt \in BOOLEAN
              /\ nxt => pageNo + 1 < MaxPages
              /\ orgs' = orgs \o pg
              /\ orgIdx' = 1
              /\ pageNo' = pageNo + 1
              /\ more' = nxt
              /\ served' = served + Len(pg)
              /\ Goto(IF nxt THEN "DiscoveringOrgs" ELSE "OrgLoop")
              /\ UNCHANGED pageLeft

\* for org in orgs: org_login, org_path, mkdir(org_path)
OrgBegin(md) ==
    /\ pc = "OrgLoop"
    /\ orgIdx <= Len(orgs)
    /\ md \in MkdirOutcomes(disk, org_path)
    /\ Fails(<<md>>)
    /\ disk' = mkdir(disk, org_path, md)
    /\ usedPaths' = usedPaths \cup {org_path}
    /\ ev' = Event("org", md, orgIdx)
    /\ StartListing
    /\ Goto("OrgRepos")
    /\ UNCHANGED <<user_login, orgs, orgIdx, repo, processed_repos, mirrorCalls>>

\* the loop over orgs is over: processed_repos = set()
OrgsDone ==
    /\ pc = "OrgLoop"
    /\ orgIdx > Len(orgs)
    /\ processed_repos' = {}
    /\ ev' = Event("orgs_done", "ok", orgIdx)
    /\ StartListing
    /\ Goto("UserRepos")
    /\ UNCHANGED <<user_login, orgs, orgIdx, repo, disk, hist, faults>>

\* get_json of the organization's repos gives its next page; the HTTPError
\* is caught outside the loop over the pages, inside the loop over orgs
FetchOrgRepos(out, k, nxt) ==
    /\ pc = "OrgRepos"
    /\ pageLeft = 0
    /\ more
    /\ out \in GetOutcomes
    /\ Fails(<<out>>)
    /\ ev' = Event("org_repos", out, orgIdx)
    /\ UNCHANGED <<user_login, orgs, repo, processed_repos, disk, hist>>
    /\ CASE out = "http" ->
              /\ orgIdx' = orgIdx + 1
              /\ Goto("OrgLoop")
              /\ UNCHANGED listing
         [] out = "conn" ->
              /\ Raise("ConnectionError")
              /\ UNCHANGED <<orgIdx, listing>>
         [] OTHER ->
              /\ YieldPage(k, nxt)
              /\ Goto("OrgRepos")
              /\ UNCHANGED orgIdx

\* the last page had no next link: on to the next org
OrgReposEnd ==
    /\ pc = "OrgRepos"
    /\ pageLeft = 0
    /\ ~more
    /\ orgIdx' = orgIdx + 1
    /\ ev' = Event("org_repos_end", "ok", orgIdx)
    /\ Goto("OrgLoop")
    /\ UNCHANGED <<user_login, orgs, repo, listing, processed_repos, disk, hist, faults>>

MirrorEnvs == [md : {"ok", "denied"}, gi : GitOutcomes, gf : GitOutcomes, v : RefStates]

\* for repo in page: name = check_name(repo["name"]); mirror(name, clone_url,
\* org_path, user["login"], token). The RuntimeError of check_name is no
\* HTTPError: nothing catches it. r is the entry the page holds here.
OrgRepoMirror(r, env) ==
    /\ pc = "OrgRepos"
    /\ pageLeft > 0
    /\ r \in Repos
    /\ LET name == r.name
           repo_path == os_path_join(org_path, name)
           m == mirror(disk, name, r, org_path, user_login, token, env)
       IN IF check_name_raises(name)
          THEN /\ Raise("RuntimeError")
               /\ ev' = Event("check_name", "RuntimeError", name)
               /\ UNCHANGED <<repo, disk, hist, faults>>
          ELSE /\ env \in MirrorEnvs
               /\ env.md \in MkdirOutcomes(disk, repo_path)
               /\ Fails(<<env.md, env.gi, env.gf>>)
               /\ repo' = [owner |-> org_login, name |-> name]
               /\ disk' = m.disk
               /\ mirrorCalls' = mirrorCalls (+) SetToBag({<<org_login, name>>})
               /\ usedPaths' = usedPaths \cup {repo_path}
               /\ ev' = Event("mirror",
                              IF m.raised # "none" THEN m.raised
                              ELSE IF m.fetched THEN "ok" ELSE "fetch_failed",
                              repo_path)
               /\ IF m.raised # "none" THEN Raise(m.raised) ELSE Goto("OrgSnapshot")
    /\ UNCHANGED <<user_login, orgs, orgIdx, listing, processed_repos>>

\* download_zip_snapshot(org_login, name, org_path, token), then the next repo
OrgRepoSnapshot(zo, v) ==
    /\ pc = "OrgSnapshot"
    /\ zo \in ZipOutcomes
    /\ Fails(<<zo>>)
    /\ v \in RefStates
    /\ LET z == download_zip_snapshot(disk, org_login, repo.name, org_path, token, zo, v)
           zip_path == os_path_join(org_path, ZipName(repo.name))
       IN /\ disk' = z.disk
          /\ usedPaths' = usedPaths \cup {zip_path}
          /\ ev' = Event("zip", IF z.raised # "none" THEN z.raised ELSE zo, zip_path)
          /\ IF z.raised # "none"
             THEN Raise(z.raised) /\ UNCHANGED pageLeft
             ELSE Goto("OrgRepos") /\ pageLeft' = pageLeft - 1
    /\ UNCHANGED <<user_login, orgs, orgIdx, repo, more, pageNo, served,
                   processed_repos, mirrorCalls>>

\* A get_json without the break at a response that has no next link goes on
\* requesting.
FetchUserRepos_no_break(out, k, nxt) ==
    /\ pc = "UserRepos"
    /\ pageLeft = 0
    /\ out \in GetOutcomes
    /\ Fails(<<out>>)
    /\ ev' = Event("user_repos", out, pageNo + 1)
    /\ UNCHANGED <<user_login, orgs, orgIdx, repo, processed_repos, disk, hist>>
    /\ CASE out = "http" ->
              /\ Return(TRUE)
              /\ UNCHANGED listing
         [] out = "conn" ->
              /\ Raise("ConnectionError")
              /\ UNCHANGED listing
         [] OTHER ->
              /\ YieldPage(k, nxt)
              /\ Goto("UserRepos")

\* A pass that collects the pages of its listing before it mirrors any of them
\* (as the organizations are collected) requests a page while entries of the
\* pages before it are still to be mirrored.
FetchUserRepos_collect_first(out, k, nxt) ==
    /\ pc = "UserRepos"
    /\ more
    /\ out \in GetOutcomes
    /\ Fails(<<out>>)
    /\ ev' = Event("user_repos", out, pageNo + 1)
    /\ UNCHANGED <<user_login, orgs, orgIdx, repo, processed_repos, disk, hist>>
    /\ CASE out = "http" ->
              /\ Return(TRUE)
              /\ UNCHANGED listing
         [] out = "conn" ->
              /\ Raise("ConnectionError")
              /\ UNCHANGED listing
         [] OTHER ->
              /\ k \in 0..MaxPageLen
              /\ served + k <= MaxItems
              /\ nxt \in BOOLEAN
              /\ nxt => pageNo + 1 < MaxPages
              /\ pageLeft' = pageLeft + k
              /\ more' = nxt
              /\ pageNo' = pageNo + 1
              /\ served' = served + k
              /\ Goto("UserRepos")

\* get_json of the user's repos gives its next page; the HTTPError is caught
\* outside the loop over the pages, and return True follows
FetchUserRepos(out, k, nxt) ==
    /\ pc = "UserRepos"
    /\ pageLeft = 0
    /\ more
    /\ out \in GetOutcomes
    /\ Fails(<<out>>)
    /\ ev' = Event("user_repos", out, pageNo + 1)
    /\ UNCHANGED <<user_login, orgs, orgIdx, repo, processed_repos, disk, hist>>
    /\ CASE out = "http" ->
              /\ Return(TRUE)
              /\ UNCHANGED listing
         [] out = "conn" ->
              /\ Raise("ConnectionError")
              /\ UNCHANGED listing
         [] OTHER ->
              /\ YieldPage(k, nxt)
              /\ Goto("UserRepos")

\* the last page had no next link: return True
UserReposEnd ==
    /\ pc = "UserRepos"
    /\ pageLeft = 0
    /\ ~more
    /\ ev' = Event("user_repos_end", "ok", pageNo)
    /\ Return(TRUE)
    /\ UNCHANGED <<run, disk, hist, faults>>

UserEnvs == [mdo : {"ok", "denied"}, md : {"ok", "denied"}, gi : GitOutcomes,
             gf : GitOutcomes, v : RefStates]

\* for repo in page: check_name of name and owner, the repo_id test,
\* mkdir(owner_path), mirror(name, clone_url, owner_path, user["login"], token).
\* r is the entry the page holds here.
UserRepoMirror(r, env) ==
    /\ pc = "UserRepos"
    /\ pageLeft > 0
    /\ r \in Repos
    /\ LET name == r.name
           owner == r.owner
           repo_id == <<owner, name>>
           owner_path == os_path_join(token_base_path, owner)
           repo_path == os_path_join(owner_path, name)
           d1 == mkdir(disk, owner_path, env.mdo)
           m == mirror(d1, name, r, owner_path, user_login, token, env)
       IN IF check_name_raises(name) \/ check_name_raises(owner)
          THEN /\ Raise("RuntimeError")
               /\ ev' = Event("check_name", "RuntimeError", r)
               /\ UNCHANGED <<repo, pageLeft, processed_repos, disk, hist, faults>>
          ELSE IF repo_id \in processed_repos
          THEN /\ pageLeft' = pageLeft - 1
               /\ ev' = Event("continue", "ok", repo_id)
               /\ Goto("UserRepos")
               /\ UNCHANGED <<repo, processed_repos, disk, hist, faults>>
          ELSE /\ env \in UserEnvs
               /\ env.mdo \in MkdirOutcomes(disk, owner_path)
               /\ env.md \in MkdirOutcomes(d1, repo_path)
               /\ Fails(<<env.mdo, env.md, env.gi, env.gf>>)
               /\ repo' = r
               /\ processed_repos' = processed_repos \cup {repo_id}
               /\ disk' = m.disk
               /\ mirrorCalls' = mirrorCalls (+) SetToBag({repo_id})
               /\ usedPaths' = usedPaths \cup {owner_path, repo_path}
               /\ ev' = Event("mirror",
                              IF m.raised # "none" THEN m.raised
                              ELSE IF m.fetched THEN "ok" ELSE "fetch_failed",
                              repo_path)
               /\ IF m.raised # "none" THEN Raise(m.raised) ELSE Goto("UserSnapshot")
               /\ UNCHANGED pageLeft
    /\ UNCHANGED <<user_login, orgs, orgIdx, more, pageNo, served>>

\* download_zip_snapshot(owner, name, owner_path, token), then the next repo
UserRepoSnapshot(zo, v) ==
    /\ pc = "UserSnapshot"
    /\ zo \in ZipOutcomes
    /\ Fails(<<zo>>)
    /\ v \in RefStates
    /\ LET owner_path == os_path_join(token_base_path, repo.owner)
           zip_path == os_path_join(owner_path, ZipName(repo.name))
           z == download_zip_snapshot(disk, repo.owner, repo.name, owner_path, token, zo, v)
       IN /\ disk' = z.disk
          /\ usedPaths' = usedPaths \cup {zip_path}
          /\ ev' = Event("zip", IF z.raised # "none" THEN z.raised ELSE zo, zip_path)
          /\ IF z.raised # "none"
             THEN Raise(z.raised) /\ UNCHANGED pageLeft
             ELSE Goto("UserRepos") /\ pageLeft' = pageLeft - 1
    /\ UNCHANGED <<user_login, orgs, orgIdx, repo, more, pageNo, served,
                   processed_repos, mirrorCalls>>

Next ==
    \/ \E md \in {"ok", "denied"} : MainStart(md)
    \/ \E out \in GetOutcomes, login \in IdentityLogins, md \in {"ok", "denied"} :
          ResolveIdentity(out, login, md)
    \/ MainLoop
    \/ \E out \in GetOutcomes, pg \in OrgPages, nxt \in BOOLEAN : FetchOrgs(out, pg, nxt)
    \/ \E md \in {"ok", "denied"} : OrgBegin(md)
    \/ OrgsDone
    \/ \E out \in GetOutcomes, k \in 0..MaxPageLen, nxt \in BOOLEAN : FetchOrgRepos(out, k, nxt)
    \/ OrgReposEnd
    \/ \E r \in Repos, env \in MirrorEnvs : OrgRepoMirror(r, env)
    \/ \E zo \in ZipOutcomes, v \in RefStates : OrgRepoSnapshot(zo, v)
    \/ \E out \in GetOutcomes, k \in 0..MaxPageLen, nxt \in BOOLEAN : FetchUserRepos(out, k, nxt)
    \/ UserReposEnd
    \/ \E r \in Repos, env \in UserEnvs : UserRepoMirror(r, env)
    \/ \E zo \in ZipOutcomes, v \in RefStates : UserRepoSnapshot(zo, v)

Spec == Init /\ [][Next]_vars

\* The one thread of the program takes its next step as long as it has one:
\* every request, mkdir and git command comes back, with an answer or with
\* an error.
LiveSpec == Spec /\ WF_vars(Next)

\* --------------------------------------------------- the name check alone
\* One entry of the user's listing, with any owner login and name, goes
\* through the checks and the joins of the user-repos pass and of mirror.
InitNames ==
    /\ tokens = <<1>>
    /\ ti = 1
    /\ pc = "check_name"
    /\ exitStatus = "running"
    /\ raised = "none"
    /\ success = FALSE
    /\ user_login \in {N_a, N_b}
    /\ orgs = <<>>
    /\ orgIdx = 1
    /\ repo \in [owner : Names, name : Names]
    /\ pageLeft = 1
    /\ more = FALSE
    /\ pageNo = 1
    /\ served = 1
    /\ faults = 0
    /\ processed_repos = {}
    /\ disk = EmptyDisk
    /\ mirrorCalls = EmptyBag
    /\ usedPaths = {}
    /\ ev = Event("start", "ok", <<>>)

\* name = check_name(repo["name"])
CheckRepoName ==
    /\ pc = "check_name"
    /\ ev' = Event("check_name",
                   IF check_name_raises(repo.name) THEN "RuntimeError" ELSE "ok",
                   check_name(repo.name))
    /\ IF check_name_raises(repo.name) THEN Raise("RuntimeError") ELSE Goto("check_owner")
    /\ UNCHANGED <<run, disk, hist, faults>>

\* owner = check_name(repo["owner"]["login"]); owner_path; the repo_path of
\* mirror
CheckOwnerAndJoin ==
    /\ pc = "check_owner"
    /\ LET owner == check_name(repo.owner)
           owner_path == os_path_join(token_base_path, owner)
           repo_path == os_path_join(owner_path, check_name(repo.name))
       IN IF check_name_raises(repo.owner)
          THEN /\ Raise("RuntimeError")
               /\ ev' = Event("check_owner", "RuntimeError", repo.owner)
               /\ UNCHANGED usedPaths
          ELSE /\ Goto("joined")
               /\ ev' = Event("join", "ok", repo_path)
               /\ usedPaths' = {owner_path, repo_path}
    /\ UNCHANGED <<run, disk, mirrorCalls, faults>>

NextNames == CheckRepoName \/ CheckOwnerAndJoin

SpecNames == InitNames /\ [][NextNames]_vars

\* ------------------------------------------------------------------ claims

\* C1: within one call of backup_repositories_for_token, mirror is invoked at
\* most once for any (owner, name), the organization pass and the user-repos
\* pass taken together.
C1_MirrorAtMostOncePerPair ==
    \A p \in BagToSet(mirrorCalls) : CopiesIn(p, mirrorCalls) <= 1

\* C2: a failed request for a page of one organization's repositories ends
\* that organization's loop only: the run goes on with the next organization
\* (after the last one, with the user-repos pass).
C2_OrgListingFailureIsolated ==
    (ev.op = "org_repos" /\ ev.out # "ok") =>
        /\ raised = "none"
        /\ pc = "OrgLoop"
        /\ orgIdx = ev.arg + 1

\* C3: a repository whose name or owner login fails check_name is skipped and
\* nothing else: the loop it is in goes on with the next entry.
C3_InvalidNameSkipsOneRepository ==
    ev.op = "check_name" =>
        /\ raised = "none"
        /\ pc \in {"OrgRepos", "UserRepos"}

\* C4: once the identity is resolved, no failure leaves
\* backup_repositories_for_token: the call ends by returning True.
C4_NoFailureAfterIdentity ==
    /\ (user_login # <<>>) => raised = "none"
    /\ (pc = "returned" /\ user_login # <<>>) => success

\* C5: a failed identity resolution makes backup_repositories_for_token
\* return False with no directory made and no mirror or snapshot call, and
\* with several tokens the loop of main goes on to the next one: it ends
\* only after the last token.
C5_IdentityFailureReturnsFalse ==
    /\ (ev.op = "identity" /\ ev.out # "ok") =>
          /\ pc = "returned"
          /\ ~success
          /\ raised = "none"
          /\ usedPaths = {}
          /\ mirrorCalls = EmptyBag
    /\ (ev.op = "loop" /\ Len(tokens) > 1 /\ pc = "exit") =>
          /\ ti = Len(tokens)
          /\ exitStatus = "0"

\* C6: every segment of every path given to mkdir, git or open below the
\* configured directory passes the name check.
C6_PathSegmentsValidated ==
    \A p \in usedPaths : \A i \in 1..Len(p) : ReMatch(p[i])

\* C7: a mirror call whose fetch fails leaves every repository that was on
\* disk as it was, refs and directory, the one it was called for included;
\* all it may add is the directory and the empty repository of its own
\* destination, and it touches no snapshot.
C7_FailedFetchKeepsMirrorState ==
    [][(ev'.op = "mirror" /\ ev'.out = "fetch_failed") =>
          /\ \A p \in disk.bare : p \in disk'.bare /\ disk'.refs[p] = disk.refs[p]
          /\ disk'.bare \ disk.bare \subseteq {ev'.arg}
          /\ \A p \in disk'.bare \ disk.bare : disk'.refs[p] = 0
          /\ disk.dirs \subseteq disk'.dirs
          /\ disk'.dirs \ disk.dirs \subseteq Prefixes(ev'.arg)
          /\ disk'.zips = disk.zips
          /\ disk'.remotes = disk.remotes]_vars

\* C7: the fetch of a repository that has refs from an earlier mirror fails
C7_Witness ==
    /\ ev.op = "mirror"
    /\ ev.out = "fetch_failed"
    /\ ev.arg \in disk.bare
    /\ disk.refs[ev.arg] # 0

CredentialsOnDisk ==
    {r \in disk.remotes : \E i \in DOMAIN tokens : r.url.userinfo.token = tokens[i]}

\* C9: nothing stored on disk holds a token or an authenticated URL: no
\* repository has a remote configured.
C9_NoCredentialOnDisk ==
    /\ CredentialsOnDisk = {}
    /\ disk.remotes = {}

\* C9: a fetch with the authenticated URL has updated a repository
C9_Witness ==
    /\ ev.op = "mirror"
    /\ ev.out = "ok"
    /\ disk.refs[ev.arg] # 0

\* C10: the exit status is non-zero only with exactly one token whose
\* identity resolution failed.
C10_ExitStatus ==
    exitStatus = "1" => (Len(tokens) = 1 /\ user_login = <<>>)

\* C11: mkdir tells whether it created the directory: a call for a path that
\* is already a directory returns False (the call before it returned True).
C11_MkdirReportsCreation ==
    [][(ev'.op = "org" /\ org_path \in disk.dirs) => ~mkdir_returns(ev'.out)]_vars

\* C12: a failed request for a page of the organizations empties orgs, the
\* pages already collected included, and the run goes on: no organization
\* is entered and the user-repos pass is next.
C12_OrgDiscoveryFailureEmptiesOrgs ==
    (ev.op = "orgs" /\ ev.out # "ok") =>
        /\ raised = "none"
        /\ orgs = <<>>
        /\ pc = "OrgLoop"
        /\ ENABLED OrgsDone

\* the names the contract of the name check lets through: ASCII word
\* characters, dots and hyphens, nothing else
IsAsciiName(n) == \A i \in 1..Len(n) : n[i] \in AsciiWord \cup {".", "-"}

\* C13: check_name returns the name it was given, unchanged, exactly when the
\* name is made of ASCII word characters, dots and hyphens, and raises for
\* every other name.
C13_AcceptsExactlyAsciiNames ==
    ev.op = "check_name" =>
        /\ ev.out = "ok" <=> IsAsciiName(repo.name)
        /\ ev.out = "ok" => ev.arg = repo.name

\* C14: every mirror call, of either pass and of every token, writes to the
\* configured directory / identity login / owner login / repository name.
C14_DestinationPath ==
    ev.op = "mirror" => ev.arg = <<user_login, repo.owner, repo.name>>

\* a for loop over get_json is running
InListing ==
    pc \in {"DiscoveringOrgs", "OrgRepos", "OrgSnapshot", "UserRepos", "UserSnapshot"}

C16_MirrorsPageBeforeNextRequest ==
    [][/\ ev'.op \in {"org_repos", "user_repos"} =>
              /\ pageLeft = 0
              /\ (ev'.out # "ok" =>
                      /\ pageLeft' = 0
                      /\ pc' \in (IF ev'.op = "org_repos" THEN {"OrgLoop", "exit"}
                                   ELSE {"returned", "exit"}))
       /\ pageLeft' < pageLeft =>
              /\ pageLeft' = pageLeft - 1
              /\ \/ ev'.op = "zip" /\ ev.op = "mirror"
                 \/ ev'.op = "continue" /\ ev'.arg \in processed_repos
       /\ ev'.op = "mirror" => (pageLeft > 0 /\ pageLeft' = pageLeft)]_vars

\* C16: the request for the second page of the user's repositories fails
\* after a repository of the first page was mirrored
C16_Witness ==
    /\ ev.op = "user_repos"
    /\ ev.out = "http"
    /\ ev.arg = 2
    /\ processed_repos # {}
    /\ pc = "returned"

\* the directory p names lies below the directory q names, and is not q
IsStrictlyInside(p, q) ==
    /\ Len(Resolve(p)) > Len(Resolve(q))
    /\ SubSeq(Resolve(p), 1, Len(Resolve(q))) = Resolve(q)

\* C17: with an owner login and a name that check_name accepts, the owner's
\* directory lies strictly inside the identity's directory, and the
\* repository's directory strictly inside the owner's.
C17_AcceptedNamesStayInside ==
    ev.op = "join" =>
        /\ IsStrictlyInside(os_path_join(token_base_path, repo.owner), token_base_path)
        /\ IsStrictlyInside(ev.arg, os_path_join(token_base_path, repo.owner))

====
